---- MODULE Spec2Model ----
(***************************************************************************)
(* Model of boomer's output layer (output.go): the derivation functions,   *)
(* the snapshot decoder convertData / deserializeStatsEntry, and the two   *)
(* sinks ConsoleOutput and PrometheusPusherOutput.                         *)
(***************************************************************************)
EXTENDS Integers, Sequences, FiniteSets, TLC

VARIABLES
    call,       \* SpecFn: a call of a pure function: its inputs, then its result
    data,       \* Spec: the raw event handed to the last OnEvent call
    sink,       \* Spec: the sink whose OnEvent ran last
    gauges,     \* the process-wide prometheus gauges (run-level and per-group)
    refGauges,  \* Spec: the gauges of the same run without its undecodable events
    out,        \* Spec: what the last OnEvent call logged, rendered, set and pushed
    pc,         \* SpecConc: position of each concurrent OnEvent call
    ev,         \* SpecConc: the event each concurrent OnEvent call was given
    pushed      \* SpecConc: the gauge values gathered by the last push

vars == <<call, data, sink, gauges, refGauges, out, pc, ev, pushed>>

(***************************************************************************)
(* Bounds of the model.                                                    *)
(***************************************************************************)
MaxRequests == 7
MaxCount == 4
MaxTotal == 5
MaxSeconds == 4

\* histogram keys (response-time buckets, ms) and the domains of the inputs
BucketKeys == {0, 100, 200, 300}
RequestCounts == 0 .. MaxRequests
SampleRequests == RequestCounts \cup {40}
Totals == 0 .. MaxTotal
Seconds == 1 .. MaxSeconds

\* every map[int64]int64 with keys in K and values in V
Maps(K, V) == UNION {[S -> V] : S \in SUBSET K}

Histograms == Maps(BucketKeys, 0 .. MaxCount)
SecondMaps == Maps(Seconds, 1 .. 2)

(***************************************************************************)
(* Go arithmetic.                                                          *)
(***************************************************************************)
Abs(x) == IF x < 0 THEN -x ELSE x

\* Go's integer quotient truncates toward zero (b # 0)
TruncDiv(a, b) ==
    IF (a < 0) = (b < 0) THEN Abs(a) \div Abs(b) ELSE -(Abs(a) \div Abs(b))

Value(v) == [panic |-> FALSE, val |-> v]
DivideByZeroPanic == [panic |-> TRUE, val |-> 0]

\* a / b on int64: a run-time panic when b is zero
GoDiv(a, b) == IF b = 0 THEN DivideByZeroPanic ELSE Value(TruncDiv(a, b))

RECURSIVE Gcd(_, _)
Gcd(a, b) == IF b = 0 THEN a ELSE Gcd(b, a % b)

\* float64 values: a finite value is kept as a reduced fraction
Float(n, d) ==
    LET g == Gcd(Abs(n), Abs(d))
        s == IF d < 0 THEN -1 ELSE 1
    IN  [kind |-> "finite", num |-> s * (n \div g), den |-> s * (d \div g)]
NaN == [kind |-> "NaN", num |-> 0, den |-> 0]
Inf(sign) == [kind |-> "Inf", num |-> sign, den |-> 0]

\* float64(x) of an int64
ToFloat(x) == Float(x, 1)

\* float64(a) / float64(b): IEEE division never panics, x/0 is NaN or +-Inf
FloatDiv(a, b) ==
    IF b = 0
    THEN IF a = 0 THEN NaN ELSE Inf(IF a < 0 THEN -1 ELSE 1)
    ELSE Float(a, b)

(***************************************************************************)
(* Derivation functions.                                                   *)
(***************************************************************************)
Min(S) == CHOOSE x \in S : \A y \in S : x <= y
Max(S) == CHOOSE x \in S : \A y \in S : y <= x

\* sort.Slice(sortedKeys, <) over the keys of the map
RECURSIVE SortedKeys(_)
SortedKeys(S) == IF S = {} THEN <<>> ELSE <<Min(S)>> \o SortedKeys(S \ {Min(S)})

RECURSIVE DescendingKeys(_)
DescendingKeys(S) ==
    IF S = {} THEN <<>> ELSE <<Max(S)>> \o DescendingKeys(S \ {Max(S)})

\* the loop over sortedKeys: pos is decremented until it falls in a bucket
RECURSIVE WalkBuckets(_, _, _)
WalkBuckets(keys, pos, responseTimes) ==
    IF keys = <<>> THEN 0
    ELSE IF pos < responseTimes[Head(keys)] THEN Head(keys)
    ELSE WalkBuckets(Tail(keys), pos - responseTimes[Head(keys)], responseTimes)

getMedianResponseTimeUnsorted(numRequests, responseTimes) ==
    IF DOMAIN responseTimes # {}
    THEN WalkBuckets(DescendingKeys(DOMAIN responseTimes),
                     TruncDiv(numRequests - 1, 2), responseTimes)
    ELSE 0

\* the loop with the assignment hoisted above the test
RECURSIVE WalkBucketsKeepLast(_, _, _, _)
WalkBucketsKeepLast(keys, pos, responseTimes, last) ==
    IF keys = <<>> THEN last
    ELSE IF pos < responseTimes[Head(keys)] THEN Head(keys)
    ELSE WalkBucketsKeepLast(Tail(keys), pos - responseTimes[Head(keys)],
                             responseTimes, Head(keys))

getMedianResponseTimeKeepLast(numRequests, responseTimes) ==
    IF DOMAIN responseTimes # {}
    THEN WalkBucketsKeepLast(SortedKeys(DOMAIN responseTimes),
                             TruncDiv(numRequests - 1, 2), responseTimes, 0)
    ELSE 0

getMedianResponseTime(numRequests, responseTimes) ==
    IF DOMAIN responseTimes # {}
    THEN WalkBuckets(SortedKeys(DOMAIN responseTimes),
                     TruncDiv(numRequests - 1, 2), responseTimes)
    ELSE 0

getAvgResponseTime(numRequests, totalResponseTime) ==
    IF numRequests # 0 THEN FloatDiv(totalResponseTime, numRequests) ELSE ToFloat(0)

getAvgContentLengthUnguarded(numRequests, totalContentLength) ==
    GoDiv(totalContentLength, numRequests)

getAvgContentLength(numRequests, totalContentLength) ==
    IF numRequests # 0 THEN GoDiv(totalContentLength, numRequests) ELSE Value(0)

RECURSIVE SumOf(_)
SumOf(m) ==
    IF DOMAIN m = {} THEN 0
    ELSE LET k == Min(DOMAIN m)
         IN  m[k] + SumOf([x \in DOMAIN m \ {k} |-> m[x]])

getCurrentRpsBySum(numRequests, numReqsPerSecond) ==
    IF SumOf(numReqsPerSecond) # 0
    THEN GoDiv(numRequests, SumOf(numReqsPerSecond))
    ELSE Value(0)

getCurrentRps(numRequests, numReqsPerSecond) ==
    LET numReqsPerSecondLength == Cardinality(DOMAIN numReqsPerSecond)
    IN  IF numReqsPerSecondLength # 0
        THEN GoDiv(numRequests, numReqsPerSecondLength)
        ELSE Value(0)

getCurrentFailPerSec(numFailures, numFailPerSecond) ==
    LET numFailPerSecondLength == Cardinality(DOMAIN numFailPerSecond)
    IN  IF numFailPerSecondLength # 0
        THEN GoDiv(numFailures, numFailPerSecondLength)
        ELSE Value(0)

getTotalFailRatio(totalRequests, totalFailures) ==
    IF totalRequests = 0 THEN ToFloat(0) ELSE FloatDiv(totalFailures, totalRequests)

(***************************************************************************)
(* strconv.FormatInt / FormatFloat, and the decimal map keys of JSON.      *)
(* A string is kept as the sequence of its characters.                     *)
(***************************************************************************)
Digits == <<"0", "1", "2", "3", "4", "5", "6", "7", "8", "9">>

RECURSIVE FormatNat(_)
FormatNat(n) ==
    IF n < 10 THEN <<Digits[n + 1]>>
    ELSE FormatNat(n \div 10) \o <<Digits[(n % 10) + 1]>>

\* strconv.FormatInt(x, 10)
FormatInt(x) == IF x < 0 THEN <<"-">> \o FormatNat(-x) ELSE FormatNat(x)

DigitValue(c) == CHOOSE d \in 0 .. 9 : Digits[d + 1] = c

RECURSIVE ParseNat(_)
ParseNat(s) ==
    IF s = <<>> THEN 0
    ELSE 10 * ParseNat(SubSeq(s, 1, Len(s) - 1)) + DigitValue(s[Len(s)])

\* strconv.ParseInt(s, 10, 64) of a well-formed decimal
ParseInt(s) == IF Head(s) = "-" THEN -ParseNat(Tail(s)) ELSE ParseNat(s)

RECURSIVE Pow10(_)
Pow10(k) == IF k = 0 THEN 1 ELSE 10 * Pow10(k - 1)

RECURSIVE ZeroPad(_, _)
ZeroPad(s, width) == IF Len(s) >= width THEN s ELSE ZeroPad(<<"0">> \o s, width)

\* n/d (n >= 0, d > 0) rounded to the nearest integer, ties to even
RoundHalfEven(n, d) ==
    LET q == n \div d
        r == n % d
    IN  IF 2 * r > d \/ (2 * r = d /\ q % 2 = 1) THEN q + 1 ELSE q

\* strconv.FormatFloat(f, 'f', prec, 64) and fmt's %.<prec>f
FormatFloat(f, prec) ==
    IF f.kind = "NaN" THEN <<"N", "a", "N">>
    ELSE IF f.kind = "Inf"
    THEN <<IF f.num < 0 THEN "-" ELSE "+", "I", "n", "f">>
    ELSE LET q == RoundHalfEven(Abs(f.num) * Pow10(prec), f.den)
         IN  (IF f.num < 0 THEN <<"-">> ELSE <<>>)
             \o FormatNat(q \div Pow10(prec)) \o <<".">>
             \o ZeroPad(FormatNat(q % Pow10(prec)), prec)

(***************************************************************************)
(* Raw events: map[string]interface{}.  A Go interface value is a record   *)
(* tagged with its dynamic type; a key that is absent reads as nil.        *)
(***************************************************************************)
Nil == [t |-> "nil"]
Int32(n) == [t |-> "int32", i |-> n]
Int64(n) == [t |-> "int64", i |-> n]
String(s) == [t |-> "string", s |-> s]
Func == [t |-> "func"]
List(items) == [t |-> "[]interface{}", items |-> items]
\* a group-shaped object; mistyped: one of its fields holds a value of a JSON
\* type the statsEntry field cannot take (num_requests: "many")
Object(entry, mistyped) ==
    [t |-> "object", entry |-> entry, mistyped |-> mistyped]

EmptyMap == [k \in {} |-> 0]

\* the zero value of statsEntry
ZeroStatsEntry ==
    [Method |-> "", Name |-> "", NumRequests |-> 0, NumFailures |-> 0,
     ResponseTimes |-> EmptyMap, TotalResponseTime |-> 0, TotalContentLength |-> 0,
     MinResponseTime |-> 0, MaxResponseTime |-> 0,
     NumReqsPerSec |-> EmptyMap, NumFailPerSec |-> EmptyMap]

MapFields == {"ResponseTimes", "NumReqsPerSec", "NumFailPerSec"}

\* encoding/json writes the int64 keys of a map as decimal strings
MarshalMap(m) == [s \in {FormatInt(k) : k \in DOMAIN m} |-> m[ParseInt(s)]]
UnmarshalMap(j) == [k \in {ParseInt(s) : s \in DOMAIN j} |-> j[FormatInt(k)]]

\* json.Marshal(stat)
Marshal(stat) ==
    CASE stat.t = "nil" -> [err |-> "", json |-> [j |-> "null"]]
      [] stat.t = "object" ->
            [err |-> "",
             json |-> [j |-> "object", mistyped |-> stat.mistyped,
                       fields |-> [f \in DOMAIN stat.entry |->
                                     IF f \in MapFields THEN MarshalMap(stat.entry[f])
                                     ELSE stat.entry[f]]]]
      [] stat.t = "[]interface{}" -> [err |-> "", json |-> [j |-> "array"]]
      [] stat.t = "string" -> [err |-> "", json |-> [j |-> "string"]]
      [] stat.t \in {"int32", "int64"} -> [err |-> "", json |-> [j |-> "number"]]
      [] OTHER -> [err |-> "json: unsupported type", json |-> [j |-> "none"]]

\* json.Unmarshal(statBytes, &entry), entry starting as statsEntry{}:
\* null leaves the struct untouched and is no error
Unmarshal(json) ==
    CASE json.j = "null" -> [err |-> "", entry |-> ZeroStatsEntry]
      [] json.j = "object" ->
            IF json.mistyped
            THEN [err |-> "json: cannot unmarshal", entry |-> ZeroStatsEntry]
            ELSE [err |-> "",
                  entry |-> [f \in DOMAIN json.fields |->
                               IF f \in MapFields THEN UnmarshalMap(json.fields[f])
                               ELSE json.fields[f]]]
      [] OTHER -> [err |-> "json: cannot unmarshal", entry |-> ZeroStatsEntry]

(***************************************************************************)
(* The snapshot decoder.  A nil *statsEntryOutput / *dataOutput is NilPtr. *)
(***************************************************************************)
NilPtr == [nil |-> TRUE]

\* the statsEntryOutput built at lines 226-234
EntryOutput(entry) ==
    [nil |-> FALSE,
     Method |-> entry.Method, Name |-> entry.Name,
     NumRequests |-> entry.NumRequests, NumFailures |-> entry.NumFailures,
     MinResponseTime |-> entry.MinResponseTime,
     MaxResponseTime |-> entry.MaxResponseTime,
     ResponseTimes |-> entry.ResponseTimes,
     TotalResponseTime |-> entry.TotalResponseTime,
     TotalContentLength |-> entry.TotalContentLength,
     NumReqsPerSec |-> entry.NumReqsPerSec,
     NumFailPerSec |-> entry.NumFailPerSec,
     medianResponseTime |-> getMedianResponseTime(entry.NumRequests, entry.ResponseTimes),
     avgResponseTime |-> getAvgResponseTime(entry.NumRequests, entry.TotalResponseTime),
     avgContentLength |->
         getAvgContentLength(entry.NumRequests, entry.TotalContentLength).val,
     currentRps |-> getCurrentRps(entry.NumRequests, entry.NumReqsPerSec).val,
     currentFailPerSec |->
         getCurrentFailPerSec(entry.NumFailures, entry.NumFailPerSec).val]

deserializeStatsEntry(stat) ==
    LET m == Marshal(stat)
        u == Unmarshal(m.json)
    IN  IF m.err # "" THEN [entryOutput |-> NilPtr, err |-> m.err]
        ELSE IF u.err # "" THEN [entryOutput |-> NilPtr, err |-> u.err]
        ELSE [entryOutput |-> EntryOutput(u.entry), err |-> ""]

\* the loop with each entry put in front of output.Stats
RECURSIVE ConvertStatsPrepend(_, _)
ConvertStatsPrepend(stats, acc) ==
    IF stats = <<>> THEN [Stats |-> acc, err |-> ""]
    ELSE LET r == deserializeStatsEntry(Head(stats))
         IN  IF r.err # "" THEN [Stats |-> <<>>, err |-> r.err]
             ELSE ConvertStatsPrepend(Tail(stats), <<r.entryOutput>> \o acc)

\* the loop of lines 206-212: acc is output.Stats so far
RECURSIVE ConvertStats(_, _)
ConvertStats(stats, acc) ==
    IF stats = <<>> THEN [Stats |-> acc, err |-> ""]
    ELSE LET r == deserializeStatsEntry(Head(stats))
         IN  IF r.err # "" THEN [Stats |-> <<>>, err |-> r.err]
             ELSE ConvertStats(Tail(stats), Append(acc, r.entryOutput))

convertData(d) ==
    IF d.user_count.t # "int32"
    THEN [output |-> NilPtr, err |-> "user_count is not int32"]
    ELSE IF d.stats.t # "[]interface{}"
    THEN [output |-> NilPtr, err |-> "stats is not []interface{}"]
    ELSE LET total == deserializeStatsEntry(d.stats_total)
         IN  IF total.err # "" THEN [output |-> NilPtr, err |-> total.err]
             ELSE LET rest == ConvertStats(d.stats.items, <<>>)
                      entryTotalOutput == total.entryOutput
                  IN  IF rest.err # "" THEN [output |-> NilPtr, err |-> rest.err]
                      ELSE [output |->
                               [nil |-> FALSE,
                                UserCount |-> d.user_count.i,
                                TotalStats |-> entryTotalOutput,
                                TotalRPS |->
                                    getCurrentRps(entryTotalOutput.NumRequests,
                                                  entryTotalOutput.NumReqsPerSec).val,
                                TotalFailRatio |->
                                    getTotalFailRatio(entryTotalOutput.NumRequests,
                                                      entryTotalOutput.NumFailures),
                                Stats |-> rest.Stats],
                            err |-> ""]

(***************************************************************************)
(* The gauges, and the state of the sinks before any event.                *)
(***************************************************************************)
ScalarGauges == {"users", "total_rps", "fail_ratio"}
VecGauges ==
    {"num_requests", "num_failures", "median_response_time",
     "average_response_time", "min_response_time", "max_response_time",
     "average_content_length", "current_rps", "current_fail_per_sec"}

NoLabels == [l \in {} |-> ToFloat(0)]

\* prometheus.NewGauge: 0; prometheus.NewGaugeVec: no child yet
InitGauges ==
    [scalar |-> [g \in ScalarGauges |-> ToFloat(0)],
     vec |-> [g \in VecGauges |-> NoLabels]]

NoData == [user_count |-> Nil, stats_total |-> Nil, stats |-> Nil]
NoOut ==
    [err |-> "", output |-> NilPtr, errors |-> <<>>, summary |-> <<>>,
     tables |-> <<>>, sets |-> <<>>, pushes |-> <<>>]
NoCall == [fn |-> "none", done |-> TRUE]

Procs == {1, 2}

SinksIdle ==
    /\ data = NoData
    /\ sink = "none"
    /\ gauges = InitGauges
    /\ refGauges = InitGauges
    /\ out = NoOut

ConcIdle ==
    /\ pc = [p \in Procs |-> 0]
    /\ ev = [p \in Procs |-> NoData]
    /\ pushed = <<>>

(***************************************************************************)
(* SpecFn: the pure functions applied to every input of bounded domains.   *)
(* The initial states are the calls about to be made; each action makes    *)
(* the call.                                                               *)
(***************************************************************************)
MaxStats == 2

\* per-group entries the events are built from
EntryA1 ==
    [ZeroStatsEntry EXCEPT !.Method = "GET", !.Name = "/a", !.NumRequests = 6,
        !.NumFailures = 1, !.ResponseTimes = (100 :> 3) @@ (200 :> 2) @@ (300 :> 1),
        !.TotalResponseTime = 1000, !.TotalContentLength = 20,
        !.MinResponseTime = 100, !.MaxResponseTime = 300,
        !.NumReqsPerSec = (1 :> 4) @@ (2 :> 2), !.NumFailPerSec = (2 :> 1)]
EntryA2 ==
    [ZeroStatsEntry EXCEPT !.Method = "GET", !.Name = "/a", !.NumRequests = 3,
        !.NumFailures = 2, !.ResponseTimes = (200 :> 1) @@ (300 :> 2),
        !.TotalResponseTime = 800, !.TotalContentLength = 10,
        !.MinResponseTime = 200, !.MaxResponseTime = 300,
        !.NumReqsPerSec = (3 :> 3), !.NumFailPerSec = (3 :> 2)]
EntryB ==
    [ZeroStatsEntry EXCEPT !.Method = "POST", !.Name = "/b", !.NumRequests = 2,
        !.ResponseTimes = (0 :> 1) @@ (100 :> 1),
        !.TotalResponseTime = 100, !.TotalContentLength = 7,
        !.MinResponseTime = 0, !.MaxResponseTime = 100,
        !.NumReqsPerSec = (1 :> 1) @@ (2 :> 1)]
EntryTotal ==
    [ZeroStatsEntry EXCEPT !.NumRequests = 8, !.NumFailures = 1,
        !.ResponseTimes = (0 :> 1) @@ (100 :> 4) @@ (200 :> 2) @@ (300 :> 1),
        !.TotalResponseTime = 1100, !.TotalContentLength = 27,
        !.MinResponseTime = 0, !.MaxResponseTime = 300,
        !.NumReqsPerSec = (1 :> 5) @@ (2 :> 3), !.NumFailPerSec = (2 :> 1)]

SeqsUpTo(S, n) == UNION {[1 .. k -> S] : k \in 0 .. n}

GroupValues ==
    {Object(EntryA1, FALSE), Object(EntryB, FALSE), Object(EntryA1, TRUE),
     Nil, String("x")}
UserCountValues == {Nil, Int32(1), Int64(1), String("1")}
StatsTotalValues ==
    {Nil, Object(EntryTotal, FALSE), Object(EntryTotal, TRUE), String("x"),
     List(<<>>), Func}
StatsValues ==
    {Nil, String("x"), Object(EntryA1, FALSE)}
        \cup {List(s) : s \in SeqsUpTo(GroupValues, MaxStats)}

DecodeEvents ==
    [user_count : UserCountValues, stats_total : StatsTotalValues,
     stats : StatsValues]

PendingCalls ==
    {[fn |-> "getMedianResponseTime", done |-> FALSE, n |-> n, m |-> h] :
        n \in RequestCounts, h \in Histograms}
    \cup {[fn |-> f, done |-> FALSE, n |-> n, t |-> t] :
        f \in {"getAvgResponseTime", "getAvgContentLength", "getTotalFailRatio"},
        n \in RequestCounts, t \in Totals}
    \cup {[fn |-> f, done |-> FALSE, n |-> n, m |-> m] :
        f \in {"getCurrentRps", "getCurrentFailPerSec"},
        n \in SampleRequests, m \in SecondMaps}
    \cup {[fn |-> "convertData", done |-> FALSE, d |-> d] : d \in DecodeEvents}

InitFn ==
    /\ call \in PendingCalls
    /\ SinksIdle
    /\ ConcIdle

Pending(f) == call.fn = f /\ ~call.done
Done(f) == call.fn = f /\ call.done

CallMedian ==
    /\ Pending("getMedianResponseTime")
    /\ call' = [fn |-> call.fn, done |-> TRUE, n |-> call.n, m |-> call.m,
                result |-> getMedianResponseTime(call.n, call.m)]
    /\ UNCHANGED <<data, sink, gauges, refGauges, out, pc, ev, pushed>>

CallAvgResponseTime ==
    /\ Pending("getAvgResponseTime")
    /\ call' = [fn |-> call.fn, done |-> TRUE, n |-> call.n, t |-> call.t,
                result |-> getAvgResponseTime(call.n, call.t)]
    /\ UNCHANGED <<data, sink, gauges, refGauges, out, pc, ev, pushed>>

CallAvgContentLength ==
    /\ Pending("getAvgContentLength")
    /\ call' = [fn |-> call.fn, done |-> TRUE, n |-> call.n, t |-> call.t,
                result |-> getAvgContentLength(call.n, call.t)]
    /\ UNCHANGED <<data, sink, gauges, refGauges, out, pc, ev, pushed>>

CallTotalFailRatio ==
    /\ Pending("getTotalFailRatio")
    /\ call' = [fn |-> call.fn, done |-> TRUE, n |-> call.n, t |-> call.t,
                result |-> getTotalFailRatio(call.n, call.t)]
    /\ UNCHANGED <<data, sink, gauges, refGauges, out, pc, ev, pushed>>

CallCurrentRps ==
    /\ Pending("getCurrentRps")
    /\ call' = [fn |-> call.fn, done |-> TRUE, n |-> call.n, m |-> call.m,
                result |-> getCurrentRps(call.n, call.m)]
    /\ UNCHANGED <<data, sink, gauges, refGauges, out, pc, ev, pushed>>

CallCurrentFailPerSec ==
    /\ Pending("getCurrentFailPerSec")
    /\ call' = [fn |-> call.fn, done |-> TRUE, n |-> call.n, m |-> call.m,
                result |-> getCurrentFailPerSec(call.n, call.m)]
    /\ UNCHANGED <<data, sink, gauges, refGauges, out, pc, ev, pushed>>

CallConvertData ==
    /\ Pending("convertData")
    /\ call' = [fn |-> call.fn, done |-> TRUE, d |-> call.d,
                result |-> convertData(call.d)]
    /\ UNCHANGED <<data, sink, gauges, refGauges, out, pc, ev, pushed>>

NextFn ==
    \/ CallMedian
    \/ CallAvgResponseTime
    \/ CallAvgContentLength
    \/ CallTotalFailRatio
    \/ CallCurrentRps
    \/ CallCurrentFailPerSec
    \/ CallConvertData

SpecFn == InitFn /\ [][NextFn]_vars

(***************************************************************************)
(* The sinks.  Spec is the event phase of a run: the runner has called     *)
(* OnStart, and delivers one raw event per tick to one sink at a time.     *)
(***************************************************************************)
\* the events the runner delivers to the sinks
SinkGroupValues ==
    {Object(EntryA1, FALSE), Object(EntryA2, FALSE), Object(EntryB, FALSE)}
\* those that decode whenever user_count does, and some that never decode
SinkEvents ==
    [user_count : {Int32(1)},
     stats_total : {Object(EntryTotal, FALSE)},
     stats : {List(s) : s \in SeqsUpTo(SinkGroupValues, MaxStats)}]
    \cup [user_count : {Nil, Int64(1)},
          stats_total : {Object(EntryTotal, FALSE)},
          stats : {List(<<>>), List(<<Object(EntryA1, FALSE)>>)}]
    \cup [user_count : {Int32(1)},
          stats_total : {Object(EntryTotal, FALSE)},
          stats : {List(<<Object(EntryB, TRUE)>>),
                   List(<<Object(EntryA1, FALSE), Object(EntryB, TRUE)>>)}]

RECURSIVE SetToSeq(_)
SetToSeq(S) ==
    IF S = {} THEN <<>>
    ELSE LET x == CHOOSE y \in S : TRUE IN <<x>> \o SetToSeq(S \ {x})

\* the events, numbered, and convertData of each, evaluated once
EventList == SetToSeq(SinkEvents)
Converted == [i \in DOMAIN EventList |-> convertData(EventList[i])]

Header ==
    <<"Type", "Name", "# requests", "# fails", "Median", "Average", "Min", "Max",
      "Content Size", "# reqs/sec", "# fails/sec">>

\* the row built at lines 143-154
Row(stat) ==
    <<stat.Method, stat.Name,
      FormatInt(stat.NumRequests), FormatInt(stat.NumFailures),
      FormatInt(stat.medianResponseTime), FormatFloat(stat.avgResponseTime, 2),
      FormatInt(stat.MinResponseTime), FormatInt(stat.MaxResponseTime),
      FormatInt(stat.avgContentLength), FormatInt(stat.currentRps),
      FormatInt(stat.currentFailPerSec)>>

\* f * 100 on float64
Times100(f) == IF f.kind = "finite" THEN Float(f.num * 100, f.den) ELSE f

\* the line of lines 136-137, without its time stamp
Summary(output) ==
    [Users |-> FormatInt(output.UserCount), TotalRPS |-> FormatInt(output.TotalRPS),
     TotalFailRatio |-> FormatFloat(Times100(output.TotalFailRatio), 1)]

\* what an OnEvent call leaves behind when convertData fails: one log line
DecodeFailure(r) ==
    [err |-> r.err, output |-> r.output, errors |-> <<"convert data error">>,
     summary |-> <<>>, tables |-> <<>>, sets |-> <<>>, pushes |-> <<>>]

\* ConsoleOutput.OnEvent on event i: what the call decoded and wrote
ConsoleOnEvent(i) ==
    LET r == Converted[i]
    IN  IF r.err # "" THEN DecodeFailure(r)
        ELSE [err |-> r.err, output |-> r.output, errors |-> <<>>,
              summary |-> <<Summary(r.output)>>,
              tables |-> <<[header |-> Header,
                            rows |-> [k \in 1 .. Len(r.output.Stats) |->
                                        Row(r.output.Stats[k])]]>>,
              sets |-> <<>>, pushes |-> <<>>]

SetOp(gauge, label, value) == [gauge |-> gauge, label |-> label, value |-> value]

\* the nine Set calls of one pass of the loop at lines 411-423
StatSets(stat) ==
    LET label == <<stat.Method, stat.Name>>
    IN  <<SetOp("num_requests", label, ToFloat(stat.NumRequests)),
          SetOp("num_failures", label, ToFloat(stat.NumFailures)),
          SetOp("median_response_time", label, ToFloat(stat.medianResponseTime)),
          SetOp("average_response_time", label, stat.avgResponseTime),
          SetOp("min_response_time", label, ToFloat(stat.MinResponseTime)),
          SetOp("max_response_time", label, ToFloat(stat.MaxResponseTime)),
          SetOp("average_content_length", label, ToFloat(stat.avgContentLength)),
          SetOp("current_rps", label, ToFloat(stat.currentRps)),
          SetOp("current_fail_per_sec", label, ToFloat(stat.currentFailPerSec))>>

RECURSIVE AllStatSets(_)
AllStatSets(stats) ==
    IF stats = <<>> THEN <<>> ELSE StatSets(Head(stats)) \o AllStatSets(Tail(stats))

\* every Set call of lines 403-423, in program order
SetOps(output) ==
    <<SetOp("users", <<>>, ToFloat(output.UserCount)),
      SetOp("total_rps", <<>>, ToFloat(output.TotalRPS)),
      SetOp("fail_ratio", <<>>, output.TotalFailRatio)>>
    \o AllStatSets(output.Stats)

\* Gauge.Set, and GaugeVec.WithLabelValues(method, name).Set
GaugeSet(g, op) ==
    IF op.gauge \in ScalarGauges
    THEN [g EXCEPT !.scalar[op.gauge] = op.value]
    ELSE [g EXCEPT !.vec[op.gauge] = (op.label :> op.value) @@ @]

RECURSIVE ApplySets(_, _)
ApplySets(g, ops) ==
    IF ops = <<>> THEN g ELSE ApplySets(GaugeSet(g, Head(ops)), Tail(ops))

PushResults == {"ok", "failed"}

\* what the call leaves behind after setting the gauges and pushing once
Pushed(r, ops, gathered, pushResult) ==
    [err |-> r.err, output |-> r.output,
     errors |-> IF pushResult = "failed"
                THEN <<"Could not push to Pushgateway">> ELSE <<>>,
     summary |-> <<>>, tables |-> <<>>, sets |-> ops,
     pushes |-> <<[result |-> pushResult, gathered |-> gathered]>>]

\* OnEvent without the return at line 399: it pushes although nothing decoded
PrometheusOnEventPushAnyway(g, i, pushResult) ==
    LET r == Converted[i]
    IN  IF r.err # ""
        THEN [gauges |-> g,
              out |-> [DecodeFailure(r) EXCEPT
                          !.pushes = <<[result |-> pushResult, gathered |-> g]>>]]
        ELSE LET ops == SetOps(r.output)
                 set == ApplySets(g, ops)
             IN  [gauges |-> set, out |-> Pushed(r, ops, set, pushResult)]

\* OnEvent that puts the gauges back when the push fails
PrometheusOnEventRollback(g, i, pushResult) ==
    LET r == Converted[i]
    IN  IF r.err # "" THEN [gauges |-> g, out |-> DecodeFailure(r)]
        ELSE LET ops == SetOps(r.output)
                 set == ApplySets(g, ops)
             IN  [gauges |-> IF pushResult = "failed" THEN g ELSE set,
                  out |-> Pushed(r, ops, set, pushResult)]

\* PrometheusPusherOutput.OnEvent on event i with the gauges at g, its push
\* ending in pushResult: the gauges it leaves, and what the call did
PrometheusOnEvent(g, i, pushResult) ==
    LET r == Converted[i]
    IN  IF r.err # "" THEN [gauges |-> g, out |-> DecodeFailure(r)]
        ELSE LET ops == SetOps(r.output)
                 set == ApplySets(g, ops)
             IN  [gauges |-> set, out |-> Pushed(r, ops, set, pushResult)]

\* the gauges of the run that skips the undecodable events
RefStep(g, i) ==
    IF Converted[i].err = "" THEN ApplySets(g, SetOps(Converted[i].output)) ELSE g

Init ==
    /\ call = NoCall
    /\ SinksIdle
    /\ ConcIdle

ConsoleTick ==
    \E i \in DOMAIN EventList :
        /\ data' = EventList[i]
        /\ sink' = "console"
        /\ out' = ConsoleOnEvent(i)
        /\ UNCHANGED <<call, gauges, refGauges, pc, ev, pushed>>

PrometheusTick ==
    \E i \in DOMAIN EventList, pushResult \in PushResults :
        LET e == PrometheusOnEvent(gauges, i, pushResult)
        IN  /\ data' = EventList[i]
            /\ sink' = "prometheus"
            /\ gauges' = e.gauges
            /\ out' = e.out
            /\ refGauges' = RefStep(refGauges, i)
            /\ UNCHANGED <<call, pc, ev, pushed>>

Next ==
    \/ ConsoleTick
    \/ PrometheusTick

Spec == Init /\ [][Next]_vars

(***************************************************************************)
(* SpecConc: two OnEvent calls on one PrometheusPusherOutput running       *)
(* concurrently.  The code takes no lock: each Gauge.Set is one atomic     *)
(* step, and so is the push, which gathers every gauge.                    *)
(***************************************************************************)
\* the event of each call: the same group, different counters
ConcEvents ==
    <<[user_count |-> Int32(1), stats_total |-> Object(EntryTotal, FALSE),
       stats |-> List(<<Object(EntryA1, FALSE)>>)],
      [user_count |-> Int32(2), stats_total |-> Object(EntryA2, FALSE),
       stats |-> List(<<Object(EntryA2, FALSE)>>)]>>

\* the Set calls each call is to make, in program order
ConcOps == [p \in Procs |-> SetOps(convertData(ConcEvents[p]).output)]

InitConc ==
    /\ call = NoCall
    /\ SinksIdle
    /\ ConcIdle

\* lines 395-400: the call starts and decodes its event
Start(p) ==
    /\ pc[p] = 0
    /\ ev' = [ev EXCEPT ![p] = ConcEvents[p]]
    /\ pc' = [pc EXCEPT ![p] = 1]
    /\ UNCHANGED <<call, data, sink, gauges, refGauges, out, pushed>>

\* lines 403-423: the next Set call
SetGauge(p) ==
    /\ pc[p] \in 1 .. Len(ConcOps[p])
    /\ gauges' = GaugeSet(gauges, ConcOps[p][pc[p]])
    /\ pc' = [pc EXCEPT ![p] = @ + 1]
    /\ UNCHANGED <<call, data, sink, refGauges, out, ev, pushed>>

\* line 425: the push gathers the gauges as they are now
Push(p) ==
    /\ pc[p] = Len(ConcOps[p]) + 1
    /\ pushed' = <<[by |-> p, gathered |-> gauges]>>
    /\ pc' = [pc EXCEPT ![p] = @ + 1]
    /\ UNCHANGED <<call, data, sink, gauges, refGauges, out, ev>>

NextConc ==
    \E p \in Procs :
        \/ Start(p)
        \/ SetGauge(p)
        \/ Push(p)

SpecConc == InitConc /\ [][NextConc]_vars

(***************************************************************************)
(* Properties of the derivation functions (SpecFn).                        *)
(***************************************************************************)
\* number of recorded response times in buckets below key k
Below(h, k) == SumOf([x \in {y \in DOMAIN h : y < k} |-> h[x]])

\* the bucket holding the element at 0-based index idx of the sorted multiset
BucketAt(h, idx) ==
    CHOOSE k \in DOMAIN h : Below(h, k) <= idx /\ idx < Below(h, k) + h[k]

WellFormed(n, h) ==
    /\ DOMAIN h # {}
    /\ \A k \in DOMAIN h : h[k] >= 1
    /\ SumOf(h) = n
    /\ n >= 1

\* C1: on a non-empty histogram whose counts are all >= 1 and sum to numRequests,
\* getMedianResponseTime returns the key of the bucket holding the element at
\* index (numRequests-1)/2 of the sorted response times (the lower median);
\* {100:3,200:2,300:1} with 6 requests gives 100, {100:1,200:1,300:4} gives 300.
C1_LowerMedian ==
    (Done("getMedianResponseTime") /\ WellFormed(call.n, call.m)) =>
        /\ call.result = BucketAt(call.m, (call.n - 1) \div 2)
        /\ (call.m = (100 :> 3) @@ (200 :> 2) @@ (300 :> 1)) => call.result = 100
        /\ (call.m = (100 :> 1) @@ (200 :> 1) @@ (300 :> 4)) => call.result = 300

C1_Witness ==
    /\ Done("getMedianResponseTime")
    /\ call.n = 6
    /\ call.m = (100 :> 1) @@ (200 :> 1) @@ (300 :> 4)
    /\ WellFormed(call.n, call.m)
    /\ call.result = 300

\* C2: getMedianResponseTime returns 0 on an empty histogram, returns 0 when the
\* bucket counts sum to at most (numRequests-1)/2 (the position is never
\* exhausted), and always returns 0 or a key of the histogram.
C2_MedianFallback ==
    Done("getMedianResponseTime") =>
        /\ (DOMAIN call.m = {}) => call.result = 0
        /\ (SumOf(call.m) <= TruncDiv(call.n - 1, 2)) => call.result = 0
        /\ call.result \in {0} \cup DOMAIN call.m

C2_Witness ==
    /\ Done("getMedianResponseTime")
    /\ call.n = 7
    /\ call.m = (100 :> 1) @@ (300 :> 2)
    /\ call.result = 0

FloatZero == [kind |-> "finite", num |-> 0, den |-> 1]

\* C3: with numRequests = 0, getAvgResponseTime, getAvgContentLength and
\* getTotalFailRatio return exactly 0; with numRequests # 0 getAvgContentLength
\* returns the integer quotient totalContentLength / numRequests; none of the
\* three divides by zero on any input.
C3_ZeroGuards ==
    /\ Done("getAvgResponseTime") =>
          /\ call.result.kind = "finite"
          /\ (call.n = 0) => call.result = FloatZero
    /\ Done("getTotalFailRatio") =>
          /\ call.result.kind = "finite"
          /\ (call.n = 0) => call.result = FloatZero
    /\ Done("getAvgContentLength") =>
          /\ ~call.result.panic
          /\ (call.n = 0) => call.result.val = 0
          /\ (call.n # 0) =>
                /\ call.result.val * call.n <= call.t
                /\ call.t < (call.result.val + 1) * call.n

C3_Witness ==
    /\ Done("getAvgContentLength")
    /\ call.n = 0
    /\ call.t = MaxTotal
    /\ call.result = [panic |-> FALSE, val |-> 0]

\* C4: getCurrentRps and getCurrentFailPerSec return the count integer-divided
\* by the number of distinct keys of the map, 0 for an empty map; the result is
\* the same for every map with that many keys; 40 requests over 4 seconds: 10.
C4_RatePerObservedSecond ==
    (Done("getCurrentRps") \/ Done("getCurrentFailPerSec")) =>
        LET keys == Cardinality(DOMAIN call.m)
        IN  /\ ~call.result.panic
            /\ (keys = 0) => call.result.val = 0
            /\ (keys # 0) =>
                  /\ call.result.val * keys <= call.n
                  /\ call.n < (call.result.val + 1) * keys
            /\ (call.n = 40 /\ keys = 4) => call.result.val = 10
            /\ \A m2 \in SecondMaps :
                  Cardinality(DOMAIN m2) = keys =>
                      /\ getCurrentRps(call.n, m2) = call.result
                      /\ getCurrentFailPerSec(call.n, m2) = call.result

C4_Witness ==
    /\ Done("getCurrentRps")
    /\ call.n = 40
    /\ call.m = (1 :> 1) @@ (2 :> 2) @@ (3 :> 1) @@ (4 :> 2)
    /\ call.result.val = 10

(***************************************************************************)
(* Properties of the decoder (SpecFn).                                     *)
(***************************************************************************)
IsInteger(x) == x.t \in {"int32", "int64"}
GroupShaped(x) == x.t = "object" /\ ~x.mistyped
GroupList(x) ==
    /\ x.t = "[]interface{}"
    /\ \A i \in 1 .. Len(x.items) : GroupShaped(x.items[i])

\* some required field of the raw event is absent or of the wrong type
Malformed(d) ==
    \/ ~IsInteger(d.user_count)
    \/ ~GroupShaped(d.stats_total)
    \/ ~GroupList(d.stats)

\* C5: convertData returns a decode error and a nil output whenever user_count,
\* stats_total or stats is absent or of the wrong type, also when one element
\* of stats fails to transcode after earlier elements succeeded.
C5_MalformedIsError ==
    (Done("convertData") /\ Malformed(call.d)) =>
        /\ call.result.err # ""
        /\ call.result.output = NilPtr

(***************************************************************************)
(* Properties of the sinks (Spec).                                         *)
(***************************************************************************)
Items(d) == d.stats.items
LabelOf(item) == <<item.entry.Method, item.entry.Name>>
Labels(d) == {LabelOf(Items(d)[k]) : k \in 1 .. Len(Items(d))}

\* convertData fails on d: user_count is no int32, stats is no list, or
\* stats_total or an element of stats is neither nil nor a well-typed object
Transcodes(x) == x.t = "nil" \/ (x.t = "object" /\ ~x.mistyped)
Undecodable(d) ==
    \/ d.user_count.t # "int32"
    \/ d.stats.t # "[]interface{}"
    \/ ~Transcodes(d.stats_total)
    \/ \E k \in 1 .. Len(Items(d)) : ~Transcodes(Items(d)[k])

\* the subsequence of the Set calls made on one gauge
SetsOn(sets, gauge) == SelectSeq(sets, LAMBDA op : op.gauge = gauge)

\* C6: on a successful decode the snapshot's per-group list is as long as the
\* input stats list and its i-th entry is decoded from the i-th input element
\* (no sorting, dropping or deduplication); the console rows and the gauge
\* updates follow in that same order.
C6_OrderPreserved ==
    (sink # "none" /\ ~Undecodable(data)) =>
        LET items == Items(data)
            Stats == out.output.Stats
            rows == out.tables[1].rows
            reqs == SetsOn(out.sets, "num_requests")
        IN  /\ out.err = ""
            /\ Len(Stats) = Len(items)
            /\ \A k \in 1 .. Len(items) :
                  \A f \in DOMAIN items[k].entry : Stats[k][f] = items[k].entry[f]
            /\ (sink = "console") =>
                  /\ Len(rows) = Len(items)
                  /\ \A k \in 1 .. Len(items) :
                        /\ rows[k][1] = items[k].entry.Method
                        /\ rows[k][2] = items[k].entry.Name
                        /\ rows[k][3] = FormatInt(items[k].entry.NumRequests)
                        /\ rows[k][8] = FormatInt(items[k].entry.MaxResponseTime)
            /\ (sink = "prometheus") =>
                  /\ Len(reqs) = Len(items)
                  /\ \A k \in 1 .. Len(items) :
                        /\ reqs[k].label = LabelOf(items[k])
                        /\ reqs[k].value = ToFloat(items[k].entry.NumRequests)

C6_Witness ==
    /\ sink = "prometheus"
    /\ Items(data) = <<Object(EntryB, FALSE), Object(EntryA1, FALSE)>>
    /\ Len(out.output.Stats) = 2
    /\ out.output.Stats[1].Name = "/b"
    /\ SetsOn(out.sets, "num_requests")[2].label = <<"GET", "/a">>

\* C7: an undecodable event only skips its tick: OnEvent of either sink logs
\* one line, renders no table, sets no gauge and pushes nothing; the gauges are
\* at every moment those of the same run without its undecodable events.
C7_DecodeFailureSkipsTick ==
    /\ [](gauges = refGauges)
    /\ [][Undecodable(data') =>
            /\ gauges' = gauges
            /\ out'.err # ""
            /\ out'.output = NilPtr
            /\ out'.errors = <<"convert data error">>
            /\ out'.summary = <<>>
            /\ out'.tables = <<>>
            /\ out'.sets = <<>>
            /\ out'.pushes = <<>>]_vars

C7_Witness ==
    /\ sink = "prometheus"
    /\ Items(data) = <<Object(EntryA1, FALSE), Object(EntryB, TRUE)>>
    /\ out.errors = <<"convert data error">>
    /\ out.pushes = <<>>
    /\ DOMAIN gauges.vec["num_requests"] = {<<"GET", "/a">>}
    /\ gauges.vec["num_requests"][<<"GET", "/a">>] = ToFloat(3)

\* the value each per-group gauge takes from one entry of an event
Fresh(entry) ==
    [num_requests |-> ToFloat(entry.NumRequests),
     num_failures |-> ToFloat(entry.NumFailures),
     median_response_time |->
         ToFloat(BucketAt(entry.ResponseTimes, (entry.NumRequests - 1) \div 2)),
     average_response_time |-> Float(entry.TotalResponseTime, entry.NumRequests),
     min_response_time |-> ToFloat(entry.MinResponseTime),
     max_response_time |-> ToFloat(entry.MaxResponseTime),
     average_content_length |->
         ToFloat(entry.TotalContentLength \div entry.NumRequests),
     current_rps |->
         ToFloat(entry.NumRequests \div Cardinality(DOMAIN entry.NumReqsPerSec)),
     current_fail_per_sec |->
         ToFloat(IF DOMAIN entry.NumFailPerSec = {} THEN 0
                 ELSE entry.NumFailures \div Cardinality(DOMAIN entry.NumFailPerSec))]

\* the last element of the event's stats carrying the label
LastWith(d, label) ==
    Items(d)[Max({k \in 1 .. Len(Items(d)) : LabelOf(Items(d)[k]) = label})]

\* g holds what event d sets: the run-level gauges, and for every label of d
\* the values of the last entry of d with that label
Reflects(g, d) ==
    /\ g.scalar["users"] = ToFloat(d.user_count.i)
    /\ g.scalar["total_rps"] =
          ToFloat(d.stats_total.entry.NumRequests
                    \div Cardinality(DOMAIN d.stats_total.entry.NumReqsPerSec))
    /\ g.scalar["fail_ratio"] =
          Float(d.stats_total.entry.NumFailures, d.stats_total.entry.NumRequests)
    /\ \A l \in Labels(d), v \in VecGauges :
          /\ l \in DOMAIN g.vec[v]
          /\ g.vec[v][l] = Fresh(LastWith(d, l).entry)[v]

PrometheusDecoded(d, s) == s = "prometheus" /\ ~Undecodable(d)

\* C8: when the push fails, OnEvent logs it, has pushed exactly once, and the
\* gauges keep the values set from that event; every OnEvent call, whatever
\* became of the pushes before it, sets the gauges from its own event and
\* pushes once.
C8_PushFailureKeepsGauges ==
    [][PrometheusDecoded(data', sink') =>
          /\ Len(out'.pushes) = 1
          /\ out'.pushes[1].result \in PushResults
          /\ out'.errors = IF out'.pushes[1].result = "failed"
                           THEN <<"Could not push to Pushgateway">> ELSE <<>>
          /\ out'.sets # <<>>
          /\ gauges' = out'.pushes[1].gathered
          /\ Reflects(gauges', data')]_vars

C8_Witness ==
    /\ sink = "prometheus"
    /\ Items(data) = <<Object(EntryA2, FALSE)>>
    /\ out.pushes # <<>>
    /\ out.pushes[1].result = "failed"
    /\ out.errors = <<"Could not push to Pushgateway">>
    /\ gauges.vec["num_requests"] =
          (<<"GET", "/a">> :> ToFloat(3)) @@ (<<"POST", "/b">> :> ToFloat(2))

\* C10: at the push of a decodable event every gauge holds the value derived
\* from that event, so that the pushed gauges are those of the current
\* snapshot only, with nothing left over from earlier snapshots.
C10_OnlyCurrentSnapshot ==
    (PrometheusDecoded(data, sink) /\ out.pushes # <<>>) =>
        /\ Reflects(out.pushes[1].gathered, data)
        /\ \A v \in VecGauges : DOMAIN out.pushes[1].gathered.vec[v] \subseteq Labels(data)

\* What OnEvent does guarantee in place of C10: at the push of a decodable
\* event the run-level gauges and the per-group gauges of every (method, name)
\* of the event hold the values derived from that event (of its last entry
\* with that label), whatever they held before; the gauges of every other
\* (method, name) keep the values an earlier event gave them.
OverwriteOfEventLabels ==
    [][PrometheusDecoded(data', sink') =>
          /\ out'.pushes # <<>>
          /\ Reflects(out'.pushes[1].gathered, data')
          /\ \A v \in VecGauges :
                /\ DOMAIN gauges'.vec[v] = DOMAIN gauges.vec[v] \cup Labels(data')
                /\ \A l \in DOMAIN gauges.vec[v] \ Labels(data') :
                      /\ gauges'.vec[v][l] = gauges.vec[v][l]
                      /\ out'.pushes[1].gathered.vec[v][l] = gauges.vec[v][l]]_vars

StaleLabelPushed ==
    /\ sink = "prometheus"
    /\ Items(data) = <<Object(EntryA1, FALSE), Object(EntryA2, FALSE)>>
    /\ out.pushes # <<>>
    /\ out.pushes[1].gathered.vec["num_failures"] =
          (<<"GET", "/a">> :> ToFloat(2)) @@ (<<"POST", "/b">> :> ToFloat(0))

(***************************************************************************)
(* Properties of concurrent calls (SpecConc).                              *)
(***************************************************************************)
\* the gauges after the Set calls of call p alone
GaugesOf(p) == ApplySets(InitGauges, ConcOps[p])

\* C9: concurrent OnEvent calls on one PrometheusPusherOutput serialize their
\* set-all-gauges-then-push sequence: at each push all gauge values come from
\* one single event, never a mixture of the values of two ticks.
C9_PushFromOneEvent ==
    pushed # <<>> => \E p \in Procs : pushed[1].gathered = GaugesOf(p)

====
